---- MODULE Spec2Model ----
(***************************************************************************)
(* Diagram Maker: the editing session of the DiagramRenderer page          *)
(* (frontend/src/pages/DiagramRenderer.js, the revision with renderingRef  *)
(* and saved diagrams), its generation-and-render flow, clearAll, the      *)
(* export handler and the save dialog; the router under any category; the  *)
(* heuristic generator of the backend; AuthProvider                        *)
(* (frontend/src/context/AuthContext.js); the Signup page                  *)
(* (frontend/src/pages/Signup.js); the DiagramsList page with its folders, *)
(* its deletions and its debounced search box; and the zoom of             *)
(* PreviewPanel (frontend/src/components/PreviewPanel.js).  Each part has  *)
(* its own specification over the one state.                               *)
(*                                                                         *)
(* Strings built by template literals are modelled as sequences of their   *)
(* parts, so that "the message contains this text" is decided by how the   *)
(* message was built.  A handler is one action up to its first await; each *)
(* continuation after an await is one action taking the awaited response   *)
(* as its input.                                                           *)
(***************************************************************************)
EXTENDS Integers, Sequences, FiniteSets, TLC

VARIABLES
    userInput,        \* useState: the description typed by the user
    diagramType,      \* useState: the selected diagram type
    generatedCode,    \* useState: '' | code | undefined
    renderedDiagram,  \* useState: null | { type: 'svg', content }
    isGenerating,     \* useState
    isRendering,      \* useState
    error,            \* useState: null | message
    savedDiagram,     \* useState: null | saved diagram
    renderingRef,     \* useRef: the in-flight flag of handleGenerateDiagram
    isExporting,      \* useState: the export busy flag
    flow,             \* the suspended handleGenerateDiagram call, if any
    exports,          \* the suspended handleExport('png') calls
    download,         \* the file the last step handed to the browser (a.click())
    toast,            \* the toast the last step showed
    genCalls,         \* fetches of /api/generate-diagram since the flow began
    renderCalls,      \* fetches of kroki.io/<type>/svg since the flow began
    outcome,          \* how the last flow settled
    cleared,          \* clearAll ran while the current/last flow was in flight
    lastExport,       \* the export the last step completed, with the fetches it made
    response,         \* the collaborator's answer the last step received
    event,            \* the handler or continuation that ran as the last step
    codeType,         \* the diagram type the held code was generated for
    succeeded,        \* a generation has reached Ready since the page was mounted
    showSaveModal,    \* useState: the save dialog is open
    isSaving,         \* useState: the save busy flag
    saveCall,         \* the suspended handleSaveDiagram call, if any
    diagrams,         \* the diagrams the storage service holds, by id
    genDescription,   \* the description handed to the generator
    genSource,        \* the source the generator produced for it
    user,             \* AuthProvider useState: null | user
    token,            \* AuthProvider useState: null | token
    loading,          \* AuthProvider useState
    storedToken,      \* localStorage.getItem('token')
    effect,           \* the useEffect of AuthProvider is due to run
    validations,      \* the suspended validateToken calls (their tokens)
    loginCall,        \* the suspended login call, if any
    email,            \* Signup useState
    password,         \* Signup useState
    confirmPassword,  \* Signup useState
    signupLoading,    \* Signup useState: loading
    signupCall,       \* the suspended handleSubmit call of Signup, if any
    location,         \* the route shown
    listDiagrams,     \* DiagramsList useState: diagrams
    isLoading,        \* DiagramsList useState
    listError,        \* DiagramsList useState: error
    searchQuery,      \* DiagramsList useState
    debouncedSearchQuery, \* useDebounce useState: debouncedValue
    handler,          \* useDebounce: the timeout set by the last effect
    idle,             \* milliseconds since the search input last changed
    folders,          \* DiagramsList useState
    selectedFolderId, \* DiagramsList useState: null | 'none' | folder id
    deleteFolderTarget, \* DiagramsList useState: null | folder
    isDeletingFolder, \* DiagramsList useState
    deleteTarget,     \* DiagramsList useState: null | diagram
    isDeleting,       \* DiagramsList useState
    folderFetches,    \* the suspended fetchFolders calls (their number)
    deleteCall,       \* the suspended handleDeleteConfirm call, if any
    deleteFolderCall, \* the suspended handleDeleteFolder call, if any
    serverDiagrams,   \* the diagrams the server holds for the user
    serverFolders,    \* the folders the server holds for the user
    zoom              \* PreviewPanel useState

vars == <<userInput, diagramType, generatedCode, renderedDiagram, isGenerating,
          isRendering, error, savedDiagram, renderingRef, isExporting, flow,
          exports, download, toast, genCalls, renderCalls, outcome, cleared,
          lastExport, response, event, codeType, succeeded, showSaveModal,
          isSaving, saveCall, diagrams, genDescription, genSource, user,
          token, loading, storedToken, effect, validations, loginCall, email,
          password, confirmPassword, signupLoading, signupCall, location,
          listDiagrams, isLoading, listError, searchQuery,
          debouncedSearchQuery, handler, idle, folders, selectedFolderId,
          deleteFolderTarget, isDeletingFolder, deleteTarget, isDeleting,
          folderFetches, deleteCall, deleteFolderCall, serverDiagrams,
          serverFolders, zoom>>

\* The state of the editing session that only its own handlers set
editorVars == <<userInput, diagramType, generatedCode, renderedDiagram,
                isGenerating, isRendering, error, renderingRef, isExporting,
                flow, exports, genCalls, renderCalls, outcome, cleared,
                codeType, succeeded>>

\* The state of SaveDiagramModal and handleSaveDiagram
saveVars == <<showSaveModal, isSaving, saveCall, diagrams>>

\* The generator's input and output
generatorVars == <<genDescription, genSource>>

\* The state of AuthProvider
authVars == <<user, token, loading, storedToken, effect, validations,
              loginCall>>

\* The state of the Signup page
signupVars == <<email, password, confirmPassword, signupLoading, signupCall,
                location>>

\* The search box of DiagramsList and its debounce
searchVars == <<searchQuery, debouncedSearchQuery, handler, idle>>

\* The state of DiagramsList beside the search box, and the server behind it
listVars == <<listDiagrams, isLoading, listError, folders, selectedFolderId,
              deleteFolderTarget, isDeletingFolder, deleteTarget, isDeleting,
              folderFetches, deleteCall, deleteFolderCall, serverDiagrams,
              serverFolders>>

\* The state of PreviewPanel
zoomVars == <<zoom>>

\* What the steps of one part of the application leave alone
besideRenderer == <<saveVars, generatorVars, authVars, signupVars, searchVars,
                    listVars, zoomVars>>
besideSave == <<editorVars, generatorVars, authVars, signupVars, searchVars,
                listVars, zoomVars>>
besideGenerator == <<editorVars, savedDiagram, saveVars, authVars, signupVars,
                     searchVars, listVars, zoomVars>>
besideAuth == <<editorVars, savedDiagram, saveVars, generatorVars, signupVars,
                searchVars, listVars, zoomVars>>
besideSignup == <<editorVars, savedDiagram, saveVars, generatorVars, authVars,
                  searchVars, listVars, zoomVars>>
besideList == <<editorVars, savedDiagram, saveVars, generatorVars, authVars,
                signupVars, zoomVars>>
besideZoom == <<savedDiagram, saveVars, generatorVars, authVars, signupVars,
                searchVars, listVars>>

-----------------------------------------------------------------------------
(* Bounds of the model *)

MaxLen == 1          \* longest description typed
MaxExports == 1      \* PNG exports awaiting the renderer at once
MaxCalls == 2        \* cap of the call counters
MaxDiagrams == 2     \* diagrams the storage service holds
MaxWords == 3        \* words of a description handed to the generator
MaxValidations == 2  \* validateToken calls awaiting the server at once
MaxPassword == 6     \* longest password typed
Tick == 100          \* milliseconds between two observations of the clock

\* The shortest password a signup may have
MinPasswordLength == 6

-----------------------------------------------------------------------------
(* Values *)

Chars == {" ", "a"}

Descriptions == UNION {[1..n -> Chars] : n \in 0..MaxLen}

\* InputPanel's DIAGRAM_TYPES (two of the three notations)
DiagramTypes == {"graphviz", "mermaid"}

Codes == {"digraph"}

EmptyCode == ""
Undefined == "undefined"
Null == [type |-> "null"]
NoError == <<>>

\* JavaScript truthiness of a string-or-undefined value
Truthy(v) == v # "" /\ v # Undefined

\* String.prototype.trim on a sequence of characters
RECURSIVE TrimStart(_)
TrimStart(s) ==
    IF s = <<>> THEN <<>>
    ELSE IF Head(s) = " " THEN TrimStart(Tail(s)) ELSE s

RECURSIVE TrimEnd(_)
TrimEnd(s) ==
    IF s = <<>> THEN <<>>
    ELSE IF s[Len(s)] = " " THEN TrimEnd(SubSeq(s, 1, Len(s) - 1)) ELSE s

Trim(s) == TrimEnd(TrimStart(s))

\* A message contains a text when the text is one of the parts it was built of.
Contains(msg, text) == \E i \in 1..Len(msg) : msg[i] = text

-----------------------------------------------------------------------------
(* The two collaborators' answers, as fetch delivers them *)

\* A response of POST /api/generate-diagram.  net = FALSE: fetch rejected.
\* json = FALSE: the body is not JSON, so response.json() rejects.
GenResponses ==
    {[net |-> FALSE, ok |-> FALSE, status |-> "0", json |-> FALSE,
      code |-> Undefined, detail |-> Undefined]}
    \cup {[net |-> TRUE, ok |-> TRUE, status |-> "200", json |-> TRUE,
           code |-> c, detail |-> Undefined] : c \in Codes \cup {Undefined}}
    \cup {[net |-> TRUE, ok |-> TRUE, status |-> "200", json |-> FALSE,
           code |-> Undefined, detail |-> Undefined]}
    \cup {[net |-> TRUE, ok |-> FALSE, status |-> "500", json |-> TRUE,
           code |-> Undefined, detail |-> d] : d \in {"quota exceeded", Undefined}}
    \cup {[net |-> TRUE, ok |-> FALSE, status |-> "500", json |-> FALSE,
           code |-> Undefined, detail |-> Undefined]}

\* What Kroki renders for a source in a notation
Svg(code, krokiType) == <<"<svg>", krokiType, code>>
Png(code, krokiType) == <<"PNG", krokiType, code>>

ErrorBody == "syntax error line 3"

\* A response of POST https://kroki.io/<krokiType>/svg with body `code`
RenderResponses(code, krokiType) ==
    {[net |-> FALSE, ok |-> FALSE, status |-> "0", text |-> <<>>],
     [net |-> TRUE, ok |-> TRUE, status |-> "200", text |-> Svg(code, krokiType)],
     [net |-> TRUE, ok |-> FALSE, status |-> "400", text |-> <<ErrorBody>>]}

\* A response of POST https://kroki.io/<krokiType>/png with body `code`
PngResponses(code, krokiType) ==
    {[net |-> FALSE, ok |-> FALSE, status |-> "0", text |-> <<>>],
     [net |-> TRUE, ok |-> TRUE, status |-> "200", text |-> Png(code, krokiType)],
     [net |-> TRUE, ok |-> FALSE, status |-> "400", text |-> <<ErrorBody>>]}

\* The message of the TypeError a rejected fetch throws, and of the
\* SyntaxError response.json() throws on a body that is not JSON.
FetchFailed == <<"Failed to fetch">>
NotJson == <<"Unexpected token in JSON">>

Thrown(message) == [threw |-> TRUE, message |-> message, value |-> Undefined]
Returned(value) == [threw |-> FALSE, message |-> NoError, value |-> value]

-----------------------------------------------------------------------------
(* Pure functions of DiagramRenderer *)

\* The router of the earlier revisions: a table from user-facing categories
\* to notations, with graphviz as the default
getKrokiType_Mapped(type) ==
    CASE type = "flowchart" -> "graphviz"
      [] type = "sequence" -> "mermaid"
      [] type = "mindmap" -> "mermaid"
      [] type = "process" -> "graphviz"
      [] type = "organization" -> "graphviz"
      [] OTHER -> "graphviz"

\* "Kroki type is now directly the diagram type selected by user"
getKrokiType(type) == type

\* A faulty variant: a non-success answer is replaced by default content
generateDiagramCode_Default(r) ==
    IF ~r.net THEN Thrown(FetchFailed)
    ELSE IF ~r.json THEN Thrown(NotJson)
    ELSE IF ~r.ok THEN Returned("digraph")
    ELSE Returned(r.code)

\* The result of generateDiagramCode once its fetch has settled with r
generateDiagramCode(r) ==
    IF ~r.net THEN Thrown(FetchFailed)
    ELSE IF ~r.json THEN Thrown(NotJson)
    ELSE IF ~r.ok
         THEN Thrown(IF Truthy(r.detail) THEN <<r.detail>>
                     ELSE <<"Backend error: ", r.status>>)
    ELSE Returned(r.code)

\* The result of renderDiagram once its fetch has settled with r
renderDiagram(r) ==
    IF ~r.net THEN Thrown(FetchFailed)
    ELSE IF ~r.ok
         THEN Thrown(<<"Kroki API returned ", r.status, ". Check diagram syntax.">>)
    ELSE Returned([type |-> "svg", content |-> r.text])

-----------------------------------------------------------------------------
(* The session after DiagramRenderer is mounted *)

Idle == [pc |-> "idle", type |-> "", code |-> Undefined, krokiType |-> ""]
NoDownload == [name |-> <<>>, mime |-> "", content |-> <<>>]
NoExport == [format |-> "", calls |-> 0, ok |-> FALSE]
NoResponse == [net |-> FALSE, ok |-> FALSE, status |-> "", text |-> <<>>]
NoToast == <<>>
NoSave == [pc |-> "idle", method |-> "", id |-> 0, title |-> <<>>, held |-> 0]
NoSource == [nodes |-> {}, edges |-> {}]
NullUser == "null"
NullToken == "null"
NoLogin == [pc |-> "idle", token |-> NullToken]
NoSignup == [pc |-> "idle", email |-> "", password |-> <<>>]

\* DiagramsList: `null` of selectedFolderId and folder_id, and 'none'
NullFolder == "null"
NoFolder == "none"

\* The diagrams and folders the server holds when the list page is opened
Library ==
    << [id |-> 1, title |-> <<"M", "y">>, description |-> <<>>,
        folder_id |-> "f1"],
       [id |-> 2, title |-> <<"F">>, description |-> <<"m">>,
        folder_id |-> NullFolder] >>

LibraryFolders == << [id |-> "f1", name |-> "Work"] >>

\* What is typed into the search box
Queries == { <<>>, <<"M", " ">>, <<"f">> }

\* useDebounce(searchQuery, 300)
DebounceDelay == 300

\* The timeout of useDebounce: setTimeout(() => setDebouncedValue(value), delay)
Timeout(value) == [armed |-> TRUE, value |-> value, elapsed |-> 0]

NoDelete == [pc |-> "idle", target |-> Null]
NoFolderDelete == [pc |-> "idle", target |-> Null, folders |-> <<>>,
                   diagrams |-> <<>>, selectedFolderId |-> NullFolder]

\* PreviewPanel: the zoom a preview starts with and returns to, and its range
DefaultZoom == 100
MinZoom == 30
MaxZoom == 200
ZoomStep == 10

Init ==
    /\ userInput = <<"a">>
    /\ diagramType = "graphviz"
    /\ generatedCode = EmptyCode
    /\ renderedDiagram = Null
    /\ isGenerating = FALSE
    /\ isRendering = FALSE
    /\ error = NoError
    /\ savedDiagram = Null
    /\ renderingRef = FALSE
    /\ isExporting = FALSE
    /\ flow = Idle
    /\ exports = <<>>
    /\ download = NoDownload
    /\ toast = NoToast
    /\ genCalls = 0
    /\ renderCalls = 0
    /\ outcome = "none"
    /\ cleared = FALSE
    /\ lastExport = NoExport
    /\ response = NoResponse
    /\ event = "mount"
    /\ codeType = ""
    /\ succeeded = FALSE
    /\ showSaveModal = FALSE
    /\ isSaving = FALSE
    /\ saveCall = NoSave
    /\ diagrams = <<>>
    /\ genDescription = <<>>
    /\ genSource = NoSource
    /\ user = NullUser
    /\ token = NullToken
    /\ loading = TRUE
    /\ storedToken = NullToken
    /\ effect = TRUE
    /\ validations = <<>>
    /\ loginCall = NoLogin
    /\ email = ""
    /\ password = <<>>
    /\ confirmPassword = <<>>
    /\ signupLoading = FALSE
    /\ signupCall = NoSignup
    /\ location = "/signup"
    /\ listDiagrams = <<>>
    /\ isLoading = TRUE
    /\ listError = NoError
    /\ searchQuery = <<>>
    /\ debouncedSearchQuery = <<>>
    /\ handler = Timeout(<<>>)
    /\ idle = 0
    /\ folders = <<>>
    /\ selectedFolderId = NullFolder
    /\ deleteFolderTarget = Null
    /\ isDeletingFolder = FALSE
    /\ deleteTarget = Null
    /\ isDeleting = FALSE
    /\ folderFetches = 1
    /\ deleteCall = NoDelete
    /\ deleteFolderCall = NoFolderDelete
    /\ serverDiagrams = Library
    /\ serverFolders = LibraryFolders
    /\ zoom = DefaultZoom

\* A counter of calls, capped at MaxCalls
Count(n) == IF n < MaxCalls THEN n + 1 ELSE MaxCalls

\* The step hands no file to the browser and completes no export
NoFile == download' = NoDownload /\ lastExport' = NoExport

\* The step receives no answer from a collaborator
NoAnswer == response' = NoResponse

\* The step shows no toast, hands over no file and receives no answer
Quiet == toast' = NoToast /\ NoFile /\ NoAnswer

-----------------------------------------------------------------------------
(* The user's edits *)

setUserInput(s) ==
    /\ userInput' = s
    /\ event' = "setUserInput"
    /\ toast' = NoToast
    /\ NoFile
    /\ NoAnswer
    /\ UNCHANGED <<diagramType, generatedCode, renderedDiagram, isGenerating,
                   isRendering, error, savedDiagram, renderingRef, isExporting,
                   flow, exports, genCalls, renderCalls, outcome, cleared,
                   codeType, succeeded>>
    /\ UNCHANGED besideRenderer

setDiagramType(t) ==
    /\ diagramType' = t
    /\ event' = "setDiagramType"
    /\ toast' = NoToast
    /\ NoFile
    /\ NoAnswer
    /\ UNCHANGED <<userInput, generatedCode, renderedDiagram, isGenerating,
                   isRendering, error, savedDiagram, renderingRef, isExporting,
                   flow, exports, genCalls, renderCalls, outcome, cleared,
                   codeType, succeeded>>
    /\ UNCHANGED besideRenderer

clearAll ==
    /\ userInput' = <<>>
    /\ generatedCode' = EmptyCode
    /\ renderedDiagram' = Null
    /\ error' = NoError
    /\ savedDiagram' = Null
    /\ toast' = <<"Cleared">>
    /\ cleared' = (cleared \/ flow.pc # "idle")
    /\ event' = "clearAll"
    /\ NoFile
    /\ NoAnswer
    /\ codeType' = ""
    /\ UNCHANGED <<diagramType, isGenerating, isRendering, renderingRef,
                   isExporting, flow, exports, genCalls, renderCalls, outcome,
                   succeeded>>
    /\ UNCHANGED besideRenderer

-----------------------------------------------------------------------------
(* handleGenerateDiagram *)

\* A faulty variant: the description is not trimmed before the test
IsBlank_NoTrim(s) == s = <<>>

\* !userInput.trim()
IsBlank(s) == Trim(s) = <<>>

\* A faulty variant: the in-flight flag is not consulted
AlreadyRendering_Never == FALSE

\* if (renderingRef.current) return
AlreadyRendering == renderingRef

\* A faulty variant: the finally block forgets the in-flight flag
Finally_KeepsRef ==
    /\ isGenerating' = FALSE
    /\ isRendering' = FALSE
    /\ UNCHANGED renderingRef

\* The finally block
Finally ==
    /\ isGenerating' = FALSE
    /\ isRendering' = FALSE
    /\ renderingRef' = FALSE

\* The catch block
Catch(message) ==
    /\ error' = message
    /\ toast' = message

\* The call, up to its first await
handleGenerateDiagram ==
    /\ event' = "generate"
    /\ IF IsBlank(userInput)
       THEN /\ toast' = <<"Please describe what you want to visualize">>
            /\ UNCHANGED <<isGenerating, error, renderingRef, flow, genCalls,
                           renderCalls, outcome, cleared>>
       ELSE IF AlreadyRendering
       THEN /\ toast' = NoToast
            /\ UNCHANGED <<isGenerating, error, renderingRef, flow, genCalls,
                           renderCalls, outcome, cleared>>
       ELSE /\ renderingRef' = TRUE
            /\ isGenerating' = TRUE
            /\ error' = NoError
            /\ toast' = <<"Understanding your description...">>
            /\ flow' = [pc |-> "generating", type |-> diagramType,
                        code |-> Undefined, krokiType |-> ""]
            /\ genCalls' = IF flow.pc = "idle" THEN 1 ELSE Count(genCalls)
            /\ renderCalls' = IF flow.pc = "idle" THEN 0 ELSE renderCalls
            /\ cleared' = IF flow.pc = "idle" THEN FALSE ELSE cleared
            /\ outcome' = "none"
    /\ NoFile
    /\ NoAnswer
    /\ UNCHANGED <<userInput, diagramType, generatedCode, renderedDiagram,
                   isRendering, savedDiagram, isExporting, exports, codeType,
                   succeeded>>
    /\ UNCHANGED besideRenderer

\* The continuation after `await generateDiagramCode(...)`, r being the answer
\* of the generation dependency
generateSettled(r) ==
    /\ flow.pc = "generating"
    /\ event' = "generateSettled"
    /\ response' = r
    /\ LET res == generateDiagramCode(r) IN
       IF res.threw
       THEN /\ Catch(res.message)
            /\ Finally
            /\ flow' = Idle
            /\ outcome' = "failed"
            /\ UNCHANGED <<generatedCode, renderCalls, codeType>>
       ELSE /\ generatedCode' = res.value
            /\ codeType' = flow.type
            /\ isRendering' = TRUE
            /\ toast' = <<"Creating your diagram...">>
            /\ flow' = [flow EXCEPT !.pc = "rendering", !.code = res.value,
                                    !.krokiType = getKrokiType(flow.type)]
            /\ renderCalls' = Count(renderCalls)
            /\ UNCHANGED <<isGenerating, renderingRef, error, outcome>>
    /\ NoFile
    /\ UNCHANGED <<userInput, diagramType, renderedDiagram, savedDiagram,
                   isExporting, exports, genCalls, cleared, succeeded>>
    /\ UNCHANGED besideRenderer

\* A faulty variant: a failed render is retried instead of reported
renderSettled_Retry(r) ==
    /\ flow.pc = "rendering"
    /\ event' = "renderSettled"
    /\ response' = r
    /\ LET res == renderDiagram(r) IN
       IF res.threw
       THEN /\ renderCalls' = Count(renderCalls)
            /\ toast' = NoToast
            /\ UNCHANGED <<renderedDiagram, error, outcome, isGenerating,
                           isRendering, renderingRef, flow, succeeded>>
       ELSE /\ renderedDiagram' = res.value
            /\ toast' = <<"Your diagram is ready!">>
            /\ outcome' = "ready"
            /\ succeeded' = TRUE
            /\ Finally
            /\ flow' = Idle
            /\ UNCHANGED <<error, renderCalls>>
    /\ NoFile
    /\ UNCHANGED <<userInput, diagramType, generatedCode, savedDiagram,
                   isExporting, exports, genCalls, cleared, codeType>>
    /\ UNCHANGED besideRenderer

\* The continuation after `await renderDiagram(...)`, r being Kroki's answer
renderSettled(r) ==
    /\ flow.pc = "rendering"
    /\ event' = "renderSettled"
    /\ response' = r
    /\ LET res == renderDiagram(r) IN
       IF res.threw
       THEN /\ Catch(res.message)
            /\ outcome' = "failed"
            /\ UNCHANGED <<renderedDiagram, succeeded>>
       ELSE /\ renderedDiagram' = res.value
            /\ toast' = <<"Your diagram is ready!">>
            /\ outcome' = "ready"
            /\ succeeded' = TRUE
            /\ UNCHANGED error
    /\ Finally
    /\ flow' = Idle
    /\ NoFile
    /\ UNCHANGED <<userInput, diagramType, generatedCode, savedDiagram,
                   isExporting, exports, genCalls, renderCalls, cleared,
                   codeType>>
    /\ UNCHANGED besideRenderer

-----------------------------------------------------------------------------
(* handleExport *)

Formats == {"svg", "png"}

\* a.download of the file
ExportFilename(format) == <<diagramType, "-diagram-", "Date.now()", ".", format>>

\* setIsExporting(true) on entry to the try block
ExportBusyOnEntry == TRUE

\* The export busy flag once the try/catch has run, given its value b before:
\* the handler has no finally block that clears it
ExportBusyOnExit(b) == b

\* A faulty variant: the SVG export renders the held code again
exportSvg_ViaRenderer ==
    /\ Len(exports) < MaxExports
    /\ exports' = Append(exports,
                         [format |-> "svg", code |-> generatedCode,
                          krokiType |-> getKrokiType(diagramType),
                          name |-> ExportFilename("svg"), calls |-> 1])
    /\ isExporting' = ExportBusyOnEntry
    /\ toast' = NoToast
    /\ NoFile

\* format === 'svg': the held artifact is handed to the browser
exportSvg ==
    /\ download' = [name |-> ExportFilename("svg"), mime |-> "image/svg+xml",
                    content |-> renderedDiagram.content]
    /\ toast' = <<"Diagram exported as SVG!">>
    /\ lastExport' = [format |-> "svg", calls |-> 0, ok |-> TRUE]
    /\ isExporting' = ExportBusyOnExit(ExportBusyOnEntry)
    /\ UNCHANGED exports

\* format === 'png': the held code is posted to Kroki's PNG endpoint
exportPng ==
    /\ Len(exports) < MaxExports
    /\ exports' = Append(exports,
                         [format |-> "png", code |-> generatedCode,
                          krokiType |-> getKrokiType(diagramType),
                          name |-> ExportFilename("png"), calls |-> 1])
    /\ isExporting' = ExportBusyOnEntry
    /\ toast' = NoToast
    /\ NoFile

\* A faulty variant: the missing artifact is not noticed
NothingRendered_Never == FALSE

\* !renderedDiagram
NothingRendered == renderedDiagram = Null

\* The call, up to its first await
handleExport(format) ==
    /\ event' = IF format = "svg" THEN "export:svg" ELSE "export:png"
    /\ IF NothingRendered
       THEN /\ toast' = <<"Please generate a diagram first">>
            /\ NoFile
            /\ UNCHANGED <<isExporting, exports>>
       ELSE IF ~Truthy(generatedCode)
       THEN /\ toast' = <<"No diagram code available to export">>
            /\ NoFile
            /\ UNCHANGED <<isExporting, exports>>
       ELSE IF format = "svg" THEN exportSvg
       ELSE exportPng
    /\ NoAnswer
    /\ UNCHANGED <<userInput, diagramType, generatedCode, renderedDiagram,
                   isGenerating, isRendering, error, savedDiagram,
                   renderingRef, flow, genCalls, renderCalls, outcome, cleared,
                   codeType, succeeded>>
    /\ UNCHANGED besideRenderer

Remove(q, i) == SubSeq(q, 1, i - 1) \o SubSeq(q, i + 1, Len(q))

\* A faulty variant: the PNG received replaces the held artifact
exportSettled_KeepsPng(i, r) ==
    /\ i \in 1..Len(exports)
    /\ event' = "exportSettled"
    /\ response' = r
    /\ exports' = Remove(exports, i)
    /\ lastExport' = [format |-> exports[i].format, calls |-> exports[i].calls,
                      ok |-> r.net /\ r.ok]
    /\ IF ~r.net
       THEN /\ toast' = <<"Failed to export diagram: ">> \o FetchFailed
            /\ download' = NoDownload
            /\ UNCHANGED renderedDiagram
       ELSE IF ~r.ok
       THEN /\ toast' = <<"Failed to export diagram: ",
                          "Failed to export as PNG: ", r.status>>
            /\ download' = NoDownload
            /\ UNCHANGED renderedDiagram
       ELSE /\ download' = [name |-> exports[i].name, mime |-> "image/png",
                            content |-> r.text]
            /\ toast' = <<"Diagram exported as PNG!">>
            /\ renderedDiagram' = [type |-> "png", content |-> r.text]
    /\ isExporting' = ExportBusyOnExit(isExporting)
    /\ UNCHANGED <<userInput, diagramType, generatedCode, isGenerating,
                   isRendering, error, savedDiagram, renderingRef, flow,
                   genCalls, renderCalls, outcome, cleared, codeType, succeeded>>
    /\ UNCHANGED besideRenderer

\* The continuation of the i-th suspended PNG export, r being Kroki's answer
exportSettled(i, r) ==
    /\ i \in 1..Len(exports)
    /\ event' = "exportSettled"
    /\ response' = r
    /\ exports' = Remove(exports, i)
    /\ lastExport' = [format |-> exports[i].format, calls |-> exports[i].calls,
                      ok |-> r.net /\ r.ok]
    /\ IF ~r.net
       THEN /\ toast' = <<"Failed to export diagram: ">> \o FetchFailed
            /\ download' = NoDownload
       ELSE IF ~r.ok
       THEN /\ toast' = <<"Failed to export diagram: ",
                          "Failed to export as PNG: ", r.status>>
            /\ download' = NoDownload
       ELSE /\ download' = [name |-> exports[i].name, mime |-> "image/png",
                            content |-> r.text]
            /\ toast' = <<"Diagram exported as PNG!">>
    /\ isExporting' = ExportBusyOnExit(isExporting)
    /\ UNCHANGED <<userInput, diagramType, generatedCode, renderedDiagram,
                   isGenerating, isRendering, error, savedDiagram,
                   renderingRef, flow, genCalls, renderCalls, outcome, cleared,
                   codeType, succeeded>>
    /\ UNCHANGED besideRenderer

-----------------------------------------------------------------------------
(* The session *)

Next ==
    \/ \E s \in Descriptions : setUserInput(s)
    \/ \E t \in DiagramTypes : setDiagramType(t)
    \/ clearAll
    \/ handleGenerateDiagram
    \/ \E r \in GenResponses : generateSettled(r)
    \/ \E r \in RenderResponses(flow.code, flow.krokiType) : renderSettled(r)
    \/ \E f \in Formats : handleExport(f)
    \/ \E i \in 1..Len(exports) :
           \E r \in PngResponses(exports[i].code, exports[i].krokiType) :
               exportSettled(i, r)

Spec == Init /\ [][Next]_vars

\* The fetches of both collaborators settle (resolve or reject) eventually
FairSpec ==
    /\ Spec
    /\ WF_vars(\E r \in GenResponses : generateSettled(r))
    /\ WF_vars(\E r \in RenderResponses(flow.code, flow.krokiType) :
                   renderSettled(r))

-----------------------------------------------------------------------------
(* Saving: SaveDiagramModal and handleSaveDiagram *)

\* A blank title, and a title with capitals, spaces and punctuation
Titles == {<<" ">>, <<" ", "M", "y", " ", "F", "!">>}

\* savedDiagram after a save (its description and updated_at are left out)
Saved(id, title) == [id |-> id, title |-> title]

\* savedDiagram?.id, 0 standing for undefined
SavedId == IF savedDiagram = Null THEN 0 ELSE savedDiagram.id

\* A faulty variant: every save creates a diagram
SaveMethod_AlwaysPost == "POST"

\* if (savedDiagram?.id) PUT /api/diagrams/<id> else POST /api/diagrams
SaveMethod == IF SavedId # 0 THEN "PUT" ELSE "POST"

\* The answers of the storage service to a save request.  `stored` tells
\* whether the service carried the request out: a request whose answer is
\* lost on the way back may have been carried out all the same.
SaveResponses ==
    {[net |-> FALSE, ok |-> FALSE, status |-> "0", stored |-> b] :
         b \in BOOLEAN}
    \cup {[net |-> TRUE, ok |-> FALSE, status |-> "500", stored |-> FALSE],
          [net |-> TRUE, ok |-> TRUE, status |-> "200", stored |-> TRUE]}

\* The storage service: POST stores a diagram under a fresh id, PUT replaces
\* the diagram stored under the id
Store(call) ==
    IF call.method = "POST"
    THEN Append(diagrams, Saved(Len(diagrams) + 1, call.title))
    ELSE [diagrams EXCEPT ![call.id] = Saved(call.id, call.title)]

\* The id in the body of a successful answer
StoredId(call) == IF call.method = "POST" THEN Len(diagrams) + 1 ELSE call.id

\* InputPanel's save button: onSave={() => setShowSaveModal(true)},
\* disabled={!canSave}
openSaveModal ==
    /\ Truthy(generatedCode)
    /\ ~showSaveModal
    /\ showSaveModal' = TRUE
    /\ event' = "openSaveModal"
    /\ toast' = NoToast
    /\ NoFile
    /\ NoAnswer
    /\ UNCHANGED <<savedDiagram, isSaving, saveCall, diagrams>>
    /\ UNCHANGED besideSave

\* onClose={() => setShowSaveModal(false)}: the backdrop, the X and Cancel
closeSaveModal ==
    /\ showSaveModal
    /\ showSaveModal' = FALSE
    /\ event' = "closeSaveModal"
    /\ toast' = NoToast
    /\ NoFile
    /\ NoAnswer
    /\ UNCHANGED <<savedDiagram, isSaving, saveCall, diagrams>>
    /\ UNCHANGED besideSave

\* SaveDiagramModal's handleSubmit with the title typed, and the call of
\* handleSaveDiagram it makes, up to its first await.  The form can be
\* submitted only while the dialog is open and not busy.
submitSave(title) ==
    /\ showSaveModal
    /\ ~isSaving
    /\ Len(diagrams) < MaxDiagrams \/ SaveMethod = "PUT"
    /\ event' = "save"
    /\ IF Trim(title) = <<>>
       THEN /\ toast' = NoToast
            /\ UNCHANGED <<isSaving, saveCall>>
       ELSE IF ~Truthy(generatedCode)
       THEN /\ toast' = <<"Please generate a diagram first">>
            /\ UNCHANGED <<isSaving, saveCall>>
       ELSE /\ isSaving' = TRUE
            /\ saveCall' = [pc |-> "saving", method |-> SaveMethod,
                            id |-> IF SaveMethod = "PUT" THEN SavedId ELSE 0,
                            title |-> Trim(title), held |-> SavedId]
            /\ toast' = NoToast
    /\ NoFile
    /\ NoAnswer
    /\ UNCHANGED <<savedDiagram, showSaveModal, diagrams>>
    /\ UNCHANGED besideSave

\* The busy flag of a handler without a `finally`: left as the try block set it
SaveFinally_Missing == isSaving

\* `finally { setIsSaving(false); }`: the busy flag after the request settled
SaveFinally == FALSE

\* The continuation after `await fetch(...)`, r being the service's answer
saveSettled(r) ==
    /\ saveCall.pc = "saving"
    /\ event' = "saveSettled"
    /\ response' = r
    /\ diagrams' = IF r.stored THEN Store(saveCall) ELSE diagrams
    /\ IF ~r.net
       THEN /\ toast' = FetchFailed
            /\ UNCHANGED <<savedDiagram, showSaveModal>>
       ELSE IF ~r.ok
       THEN /\ toast' = <<"Failed to save diagram">>
            /\ UNCHANGED <<savedDiagram, showSaveModal>>
       ELSE /\ savedDiagram' = Saved(StoredId(saveCall), saveCall.title)
            /\ showSaveModal' = FALSE
            /\ toast' = IF saveCall.id # 0 THEN <<"Diagram updated!">>
                        ELSE <<"Diagram saved!">>
    /\ isSaving' = SaveFinally
    /\ saveCall' = NoSave
    /\ NoFile
    /\ UNCHANGED besideSave

\* The editing session with its save dialog
SaveNext ==
    \/ \E s \in Descriptions : setUserInput(s)
    \/ clearAll
    \/ handleGenerateDiagram
    \/ \E r \in GenResponses : generateSettled(r)
    \/ \E r \in RenderResponses(flow.code, flow.krokiType) : renderSettled(r)
    \/ handleExport("svg")
    \/ openSaveModal
    \/ closeSaveModal
    \/ \E t \in Titles : submitSave(t)
    \/ \E r \in SaveResponses : saveSettled(r)

SaveSpec == Init /\ [][SaveNext]_vars

-----------------------------------------------------------------------------
(* The router under any category a caller may pass *)

\* The notations Kroki is asked for by some revision of the page
KrokiNotations == {"graphviz", "mermaid", "plantuml"}

\* The user-facing categories of the earlier revisions
KnownCategories == {"flowchart", "sequence", "mindmap", "process",
                    "organization"}

Categories ==
    KrokiNotations \cup KnownCategories \cup {"totally-unknown-category"}

\* A response of POST https://kroki.io/<krokiType>/svg: Kroki has no
\* endpoint for a name that is not a notation
KrokiResponses(code, krokiType) ==
    IF krokiType \in KrokiNotations THEN RenderResponses(code, krokiType)
    ELSE {[net |-> FALSE, ok |-> FALSE, status |-> "0", text |-> <<>>],
          [net |-> TRUE, ok |-> FALSE, status |-> "404",
           text |-> <<"Not Found">>]}

RouterNext ==
    \/ \E c \in Categories : setDiagramType(c)
    \/ handleGenerateDiagram
    \/ \E r \in GenResponses : generateSettled(r)
    \/ \E r \in KrokiResponses(flow.code, flow.krokiType) : renderSettled(r)

RouterSpec == Init /\ [][RouterNext]_vars

-----------------------------------------------------------------------------
(* The heuristic generator behind /api/generate-diagram *)

\* The words of a description
Words == {"Review", "Approve", "reject", "Complete", "ship"}

WordDescriptions == UNION {[1..n -> Words] : n \in 0..MaxWords}

\* Lower-casing, word by word
LowerCase(w) ==
    CASE w = "Review" -> "review"
      [] w = "Approve" -> "approve"
      [] w = "Complete" -> "complete"
      [] OTHER -> w

\* The lower-cased description includes the keyword
Includes(d, keyword) == \E i \in 1..Len(d) : LowerCase(d[i]) = keyword

HasReview(d) == Includes(d, "review")
HasDecision(d) ==
    Includes(d, "approve") \/ Includes(d, "decision") \/ Includes(d, "reject")
HasComplete(d) == Includes(d, "complete")

Edge(from, to, label) == [from |-> from, to |-> to, label |-> label]

\* A faulty variant: rejection goes back to a fixed node
RejectTarget_Fixed(hasReview) == "start"

\* Rejection goes back to the earliest optional step detected
RejectTarget(hasReview) == IF hasReview THEN "review" ELSE "start"

\* The nodes spliced into the skeleton for a description
NodesFor(d) ==
    {"start", "end"}
    \cup (IF HasReview(d) THEN {"review"} ELSE {})
    \cup (IF HasDecision(d) THEN {"decision"} ELSE {})
    \cup (IF HasComplete(d) THEN {"complete"} ELSE {})

\* start -> [review] -> decision -> [complete | loop-back] -> end
Skeleton(nodes) ==
    LET chain == SelectSeq(<<"start", "review", "decision", "complete", "end">>,
                           LAMBDA n : n \in nodes)
    IN  {Edge(chain[i], chain[i + 1],
              IF chain[i] = "decision" THEN "Approved" ELSE "")
           : i \in 1..(Len(chain) - 1)}

\* generate(description): the graph of the code produced
Generate(d) ==
    IF ~HasReview(d) /\ ~HasDecision(d) /\ ~HasComplete(d)
    THEN [nodes |-> {"start", "process", "end"},
          edges |-> {Edge("start", "process", ""), Edge("process", "end", "")}]
    ELSE [nodes |-> NodesFor(d),
          edges |-> Skeleton(NodesFor(d))
                    \cup (IF HasDecision(d)
                          THEN {Edge("decision", RejectTarget(HasReview(d)),
                                     "Rejected")}
                          ELSE {})]

\* A caller hands over a description
describe(d) ==
    /\ genDescription' = d
    /\ genSource' = NoSource
    /\ event' = "describe"
    /\ Quiet
    /\ UNCHANGED besideGenerator

\* The generator runs on it; a blank description is not generated from
generate ==
    /\ genDescription # <<>>
    /\ genSource' = Generate(genDescription)
    /\ event' = "generated"
    /\ Quiet
    /\ UNCHANGED genDescription
    /\ UNCHANGED besideGenerator

GeneratorNext ==
    \/ \E d \in WordDescriptions : describe(d)
    \/ generate

GeneratorSpec == Init /\ [][GeneratorNext]_vars

-----------------------------------------------------------------------------
(* AuthProvider *)

Tokens == {"t1", "t2"}

\* The user a token was issued to
UserOf(t) == IF t = "t1" THEN "alice" ELSE "bob"

\* The answers of GET /api/auth/me to `Bearer t`
MeResponses(t) ==
    {[net |-> FALSE, ok |-> FALSE, status |-> "0", user |-> NullUser],
     [net |-> TRUE, ok |-> FALSE, status |-> "401", user |-> NullUser],
     [net |-> TRUE, ok |-> TRUE, status |-> "200", user |-> UserOf(t)]}

\* The answers of POST /api/auth/login
LoginResponses ==
    {[net |-> FALSE, json |-> FALSE, ok |-> FALSE, status |-> "0",
      access_token |-> NullToken],
     [net |-> TRUE, json |-> FALSE, ok |-> FALSE, status |-> "502",
      access_token |-> NullToken],
     [net |-> TRUE, json |-> TRUE, ok |-> FALSE, status |-> "401",
      access_token |-> NullToken]}
    \cup {[net |-> TRUE, json |-> TRUE, ok |-> TRUE, status |-> "200",
           access_token |-> t] : t \in Tokens}

\* isAuthenticated: !!token && !!user
isAuthenticated == token # NullToken /\ user # NullUser

\* setToken(t): the effect depends on token and is due again when it changes
setToken(t) ==
    /\ token' = t
    /\ effect' = (effect \/ t # token)

\* useEffect: validateToken, up to its await
validateToken ==
    /\ effect
    /\ token = NullToken \/ Len(validations) < MaxValidations
    /\ effect' = FALSE
    /\ IF token # NullToken
       THEN /\ validations' = Append(validations, token)
            /\ UNCHANGED loading
       ELSE /\ loading' = FALSE
            /\ UNCHANGED validations
    /\ event' = "validateToken"
    /\ Quiet
    /\ UNCHANGED <<user, token, storedToken, loginCall>>
    /\ UNCHANGED besideAuth

\* localStorage left as it is: the stored token stays
removeItem_Missing == storedToken

\* localStorage.removeItem('token'): what localStorage holds afterwards
removeItem == NullToken

\* The continuation of the i-th suspended validateToken, r being the answer
validateSettled(i, r) ==
    /\ i \in 1..Len(validations)
    /\ validations' = Remove(validations, i)
    /\ IF r.net /\ r.ok
       THEN /\ user' = r.user
            /\ UNCHANGED <<token, storedToken, effect>>
       ELSE /\ storedToken' = removeItem
            /\ setToken(NullToken)
            /\ user' = NullUser
    /\ loading' = FALSE
    /\ event' = "validateSettled"
    /\ response' = r
    /\ toast' = NoToast
    /\ NoFile
    /\ UNCHANGED loginCall
    /\ UNCHANGED besideAuth

\* login(email, password), up to its first await; one call at a time
login ==
    /\ loginCall.pc = "idle"
    /\ loginCall' = [pc |-> "login", token |-> NullToken]
    /\ event' = "login"
    /\ Quiet
    /\ UNCHANGED <<user, token, loading, storedToken, effect, validations>>
    /\ UNCHANGED besideAuth

\* The continuation after the login fetch, r being the answer
loginSettled(r) ==
    /\ loginCall.pc = "login"
    /\ IF r.net /\ r.json /\ r.ok
       THEN /\ storedToken' = r.access_token
            /\ setToken(r.access_token)
            /\ loginCall' = [pc |-> "me", token |-> r.access_token]
       ELSE /\ loginCall' = NoLogin
            /\ UNCHANGED <<token, storedToken, effect>>
    /\ event' = "loginSettled"
    /\ response' = r
    /\ toast' = NoToast
    /\ NoFile
    /\ UNCHANGED <<user, loading, validations>>
    /\ UNCHANGED besideAuth

\* The continuation after login's fetch of /api/auth/me
meSettled(r) ==
    /\ loginCall.pc = "me"
    /\ user' = IF r.net /\ r.ok THEN r.user ELSE user
    /\ loginCall' = NoLogin
    /\ event' = "meSettled"
    /\ response' = r
    /\ toast' = NoToast
    /\ NoFile
    /\ UNCHANGED <<token, loading, storedToken, effect, validations>>
    /\ UNCHANGED besideAuth

logout ==
    /\ setToken(NullToken)
    /\ user' = NullUser
    /\ event' = "logout"
    /\ Quiet
    /\ UNCHANGED <<loading, storedToken, validations, loginCall>>
    /\ UNCHANGED besideAuth

\* The page is loaded again: its pending calls are gone and AuthProvider
\* mounts with the token found in localStorage
mount ==
    /\ user' = NullUser
    /\ token' = storedToken
    /\ loading' = TRUE
    /\ effect' = TRUE
    /\ validations' = <<>>
    /\ loginCall' = NoLogin
    /\ event' = "mount"
    /\ Quiet
    /\ UNCHANGED storedToken
    /\ UNCHANGED besideAuth

AuthNext ==
    \/ validateToken
    \/ \E i \in 1..Len(validations) :
           \E r \in MeResponses(validations[i]) : validateSettled(i, r)
    \/ login
    \/ \E r \in LoginResponses : loginSettled(r)
    \/ \E r \in MeResponses(loginCall.token) : meSettled(r)
    \/ logout
    \/ mount

AuthSpec == Init /\ [][AuthNext]_vars

-----------------------------------------------------------------------------
(* The Signup page *)

Emails == {"", "test@example.com"}

\* Passwords by their length
Passwords == UNION {[1..n -> {"x"}] : n \in 0..MaxPassword}

\* The answers of POST /api/auth/signup
SignupResponses ==
    {[net |-> FALSE, ok |-> FALSE, status |-> "0", detail |-> Undefined],
     [net |-> TRUE, ok |-> FALSE, status |-> "400",
      detail |-> "Email already registered"],
     [net |-> TRUE, ok |-> FALSE, status |-> "500", detail |-> Undefined],
     [net |-> TRUE, ok |-> TRUE, status |-> "201", detail |-> Undefined]}

\* The inputs and the submit button are disabled while loading
SignupEnabled == location = "/signup" /\ ~signupLoading

setEmail(e) ==
    /\ SignupEnabled
    /\ email' = e
    /\ event' = "setEmail"
    /\ Quiet
    /\ UNCHANGED <<password, confirmPassword, signupLoading, signupCall,
                   location>>
    /\ UNCHANGED besideSignup

setPassword(p) ==
    /\ SignupEnabled
    /\ password' = p
    /\ event' = "setPassword"
    /\ Quiet
    /\ UNCHANGED <<email, confirmPassword, signupLoading, signupCall,
                   location>>
    /\ UNCHANGED besideSignup

setConfirmPassword(p) ==
    /\ SignupEnabled
    /\ confirmPassword' = p
    /\ event' = "setConfirmPassword"
    /\ Quiet
    /\ UNCHANGED <<email, password, signupLoading, signupCall, location>>
    /\ UNCHANGED besideSignup

\* Signup's handleSubmit, up to `await signup(email, password)`
handleSubmit ==
    /\ SignupEnabled
    /\ event' = "handleSubmit"
    /\ IF email = "" \/ password = <<>> \/ confirmPassword = <<>>
       THEN /\ toast' = <<"Please fill in all fields">>
            /\ UNCHANGED <<signupLoading, signupCall>>
       ELSE IF password # confirmPassword
       THEN /\ toast' = <<"Passwords do not match">>
            /\ UNCHANGED <<signupLoading, signupCall>>
       ELSE /\ signupLoading' = TRUE
            /\ signupCall' = [pc |-> "signup", email |-> email,
                              password |-> password]
            /\ toast' = NoToast
    /\ NoFile
    /\ NoAnswer
    /\ UNCHANGED <<email, password, confirmPassword, location>>
    /\ UNCHANGED besideSignup

\* The continuation after `await signup(...)`, r being the server's answer
signupSettled(r) ==
    /\ signupCall.pc = "signup"
    /\ event' = "signupSettled"
    /\ response' = r
    /\ IF ~r.net
       THEN /\ toast' = FetchFailed
            /\ UNCHANGED location
       ELSE IF ~r.ok
       THEN /\ toast' = IF Truthy(r.detail) THEN <<r.detail>>
                        ELSE <<"Signup failed">>
            /\ UNCHANGED location
       ELSE /\ toast' = <<"Account created successfully! Please sign in.">>
            /\ location' = "/login"
    /\ signupLoading' = FALSE
    /\ signupCall' = NoSignup
    /\ NoFile
    /\ UNCHANGED <<email, password, confirmPassword>>
    /\ UNCHANGED besideSignup

\* The Signup page is opened again and mounts with empty fields
openSignup ==
    /\ location = "/login"
    /\ location' = "/signup"
    /\ email' = ""
    /\ password' = <<>>
    /\ confirmPassword' = <<>>
    /\ event' = "openSignup"
    /\ Quiet
    /\ UNCHANGED <<signupLoading, signupCall>>
    /\ UNCHANGED besideSignup

SignupNext ==
    \/ \E e \in Emails : setEmail(e)
    \/ \E p \in Passwords : setPassword(p)
    \/ \E p \in Passwords : setConfirmPassword(p)
    \/ handleSubmit
    \/ \E r \in SignupResponses : signupSettled(r)
    \/ openSignup

SignupSpec == Init /\ [][SignupNext]_vars

-----------------------------------------------------------------------------
(* The orchestrator's state, as the specification names it *)

InFlight == flow.pc # "idle"

\* Every character of the description is white space
WhitespaceOnly(s) == \A i \in 1..Len(s) : s[i] = " "

\* The last step was a continuation of the flow that settled it
FlowJustSettled ==
    event \in {"generateSettled", "renderSettled"} /\ flow.pc = "idle"

-----------------------------------------------------------------------------
(* Properties *)

\* C1: a generation request issued while a flow is in flight (Generating or
\* Rendering) is ignored: it issues no generation call and no render call
\* and changes nothing the session holds, so one flow at most is in flight.
C1_InFlightRequestIgnored ==
    [][(event' = "generate" /\ InFlight)
         => UNCHANGED <<userInput, diagramType, generatedCode, renderedDiagram,
                        isGenerating, isRendering, error, savedDiagram,
                        renderingRef, isExporting, flow, exports, genCalls,
                        renderCalls, outcome>>]_vars

\* A request was made while the flow was awaiting the renderer, and skipped.
C1_Witness ==
    event = "generate" /\ flow.pc = "rendering" /\ ~WhitespaceOnly(userInput)

\* C2: when the renderer answers the flow's render request with a non-2xx
\* status and an error body, the flow ends in Failed and the error exposed
\* contains the body text verbatim.
C2_RenderErrorBodyVerbatim ==
    (event = "renderSettled" /\ response.net /\ ~response.ok)
        => /\ outcome = "failed"
           /\ \A i \in 1..Len(response.text) : Contains(error, response.text[i])

\* C3: if clearAll runs while a flow is in flight, the late answer of that
\* flow is not committed: once the flow has settled, the generated code, the
\* artifact and the error of the cleared session are still empty.
C3_ClearedSessionStaysEmpty ==
    (FlowJustSettled /\ cleared)
        => /\ generatedCode = EmptyCode
           /\ renderedDiagram = Null
           /\ error = NoError

\* C4: if the generation dependency fails, or succeeds with no usable code,
\* the flow moves to Failed and no render call is made for the request.
C4_NoRenderAfterGenerationFailure ==
    (event = "generateSettled"
       /\ ~(response.net /\ response.ok /\ response.json
              /\ Truthy(response.code)))
        => /\ outcome = "failed"
           /\ ~InFlight
           /\ renderCalls = 0

\* C5 (as stated): on a non-success answer of the generation dependency the
\* error exposed carries both the status code and the dependency's message,
\* and no default content is installed as generated code.
C5_ErrorCarriesStatusAndMessage ==
    (event = "generateSettled" /\ response.net /\ ~response.ok)
        => /\ outcome = "failed"
           /\ Contains(error, response.status)
           /\ Truthy(response.detail) => Contains(error, response.detail)

\* C5 (amended): on a non-success answer with a JSON body the error exposed
\* carries the dependency's message when the body has one and the status
\* code otherwise; on every non-success answer the flow fails with an error
\* and the generated code is left as it was.
C5_ErrorCarriesMessageOrStatus ==
    [][(event' = "generateSettled" /\ response'.net /\ ~response'.ok)
         => /\ outcome' = "failed"
            /\ error' # NoError
            /\ generatedCode' = generatedCode
            /\ (response'.json /\ Truthy(response'.detail))
                  => (Contains(error', response'.detail)
                        /\ ~Contains(error', response'.status))
            /\ (response'.json /\ ~Truthy(response'.detail))
                  => Contains(error', response'.status)]_vars

\* The generation dependency answered 500 with a message of its own.
C5_Witness ==
    /\ event = "generateSettled"
    /\ response.net /\ ~response.ok /\ response.json
    /\ Truthy(response.detail)
    /\ outcome = "failed"

\* C6: an accepted request causes exactly one generation call and exactly one
\* render call when the flow reaches Ready, at most one of each when it ends
\* in Failed, and no call is ever issued again by the orchestrator itself.
C6_OneCallOfEach ==
    /\ genCalls <= 1
    /\ renderCalls <= 1
    /\ InFlight => genCalls = 1
    /\ flow.pc = "generating" => renderCalls = 0
    /\ flow.pc = "rendering" => renderCalls = 1
    /\ outcome = "ready" => (genCalls = 1 /\ renderCalls = 1)

\* A flow has just reached Ready.
C6_Witness ==
    /\ event = "renderSettled"
    /\ outcome = "ready"
    /\ ~InFlight
    /\ renderedDiagram # Null

\* C7: every flow that starts settles, in Ready or in either failure, with
\* the in-flight flag and both busy flags cleared, so that the next request
\* with a non-blank description is accepted.
C7_FlowSettlesFlagsCleared ==
    /\ [](~InFlight => (~renderingRef /\ ~isGenerating /\ ~isRendering))
    /\ (InFlight ~> (~InFlight /\ ~renderingRef /\ ~isGenerating /\ ~isRendering))
    /\ [][(event' = "generate" /\ ~InFlight /\ ~WhitespaceOnly(userInput))
            => (flow'.pc = "generating" /\ renderingRef')]_vars

\* A flow failed at the generation step and has settled.
C7_Witness ==
    /\ event = "generateSettled"
    /\ outcome = "failed"
    /\ ~InFlight
    /\ ~renderingRef

\* C8: a request whose description is empty or white space only is rejected
\* at once: no call is made, the in-flight flag is not taken and the held
\* code, artifact and error are unchanged.
C8_BlankRequestRejected ==
    [][(event' = "generate" /\ WhitespaceOnly(userInput))
         => UNCHANGED <<generatedCode, renderedDiagram, error, renderingRef,
                        isGenerating, isRendering, flow, genCalls,
                        renderCalls>>]_vars

\* A white-space-only description was submitted while a diagram was held.
C8_Witness ==
    /\ event = "generate"
    /\ userInput = <<" ">>
    /\ Truthy(generatedCode)
    /\ ~InFlight

\* C9: an SVG export calls the renderer not at all and hands over the held
\* artifact's content unchanged; a PNG export calls the renderer exactly once.
C9_ExportRendererCalls ==
    /\ lastExport.format = "svg"
          => /\ lastExport.calls = 0
             /\ download.mime = "image/svg+xml"
             /\ download.content = renderedDiagram.content
    /\ lastExport.format = "png" => lastExport.calls = 1
    /\ \A i \in 1..Len(exports) :
          exports[i].format = "png" /\ exports[i].calls = 1

\* An SVG export completed while a PNG export was awaiting the renderer.
C9_Witness == lastExport.format = "svg" /\ Len(exports) > 0

-----------------------------------------------------------------------------
(* The export adapter *)

ExportEvents == {"export:svg", "export:png"}

\* C11: at most one export is in flight per session; an export requested
\* while another has not yet settled is not started, so it makes no renderer
\* call and hands no file to the browser.
C11_SingleExportInFlight ==
    [][(Len(exports) > 0 /\ event' \in ExportEvents)
          => (exports' = exports /\ download' = NoDownload)]_vars

\* C12: every PNG export sends the held code to the PNG endpoint of the
\* notation that code was generated for, whatever diagram type has been
\* selected since the generation.
C12_PngUsesNotationOfCode ==
    (event = "export:png" /\ Len(exports) > 0)
        => /\ exports[Len(exports)].code = generatedCode
           /\ exports[Len(exports)].krokiType = codeType

\* C13: an export requested before any generation has succeeded is rejected
\* at once, for either format: the user is told, no renderer call is made
\* and no file is produced.
C13_ExportBeforeSuccessRejected ==
    [][(~succeeded /\ event' \in ExportEvents)
          => /\ toast' = <<"Please generate a diagram first">>
             /\ exports' = exports
             /\ download' = NoDownload
             /\ lastExport' = NoExport]_vars

\* A PNG export is refused although code is held: its generation never
\* reached Ready
C13_Witness ==
    /\ event = "export:png"
    /\ ~succeeded
    /\ Truthy(generatedCode)
    /\ toast = <<"Please generate a diagram first">>

\* C14 as stated: the held code and the held artifact are changed by
\* nothing but the generation flow, on its transition into Rendering or
\* into Ready.
C14_OnlyGenerationChangesPair ==
    [][(generatedCode' # generatedCode \/ renderedDiagram' # renderedDiagram)
          => \/ event' = "generateSettled" /\ flow'.pc = "rendering"
             \/ event' = "renderSettled" /\ outcome' = "ready"]_vars

\* C14, amended: the held code and the held artifact are changed only by
\* the generation flow, on its transition into Rendering or into Ready, and
\* by clearAll, which empties both; an export call of either format never
\* changes them, whether it is refused, succeeds or fails.
C14_ExportOnlyReadsPair ==
    [][/\ (generatedCode' # generatedCode \/ renderedDiagram' # renderedDiagram)
          => \/ event' = "generateSettled" /\ flow'.pc = "rendering"
             \/ event' = "renderSettled" /\ outcome' = "ready"
             \/ event' = "clearAll"
       /\ event' \in ExportEvents \cup {"exportSettled"}
          => UNCHANGED <<generatedCode, renderedDiagram>>]_vars

\* A PNG export has just succeeded with the pair still held
C14_Witness ==
    /\ event = "exportSettled"
    /\ lastExport.ok
    /\ download.mime = "image/png"
    /\ Truthy(generatedCode)
    /\ renderedDiagram # Null
    /\ renderedDiagram.type = "svg"

-----------------------------------------------------------------------------
(* The export filename *)

\* String.prototype.toLowerCase on one character of a title
ToLowerCase(c) == IF c = "M" THEN "m" ELSE IF c = "F" THEN "f" ELSE c

\* The characters of a title that match [a-z0-9]
AlphaNumeric == {"m", "y", "f"}

\* Drops the leading characters that match [^a-z0-9]
RECURSIVE SkipOthers(_)
SkipOthers(s) ==
    IF s = <<>> THEN <<>>
    ELSE IF Head(s) \in AlphaNumeric THEN s ELSE SkipOthers(Tail(s))

\* .replace(/[^a-z0-9]+/g, '-')
RECURSIVE Dashed(_)
Dashed(s) ==
    IF s = <<>> THEN <<>>
    ELSE IF Head(s) \in AlphaNumeric THEN <<Head(s)>> \o Dashed(Tail(s))
    ELSE <<"-">> \o Dashed(SkipOthers(Tail(s)))

\* .replace(/^-|-$/g, '')
Stripped(s) ==
    LET t == IF s # <<>> /\ Head(s) = "-" THEN Tail(s) ELSE s
    IN  IF t # <<>> /\ t[Len(t)] = "-" THEN SubSeq(t, 1, Len(t) - 1) ELSE t

\* The slug of a title
Slug(title) ==
    Stripped(Dashed([i \in 1..Len(title) |-> ToLowerCase(title[i])]))

\* C15: the file an export hands to the browser is named after the saved
\* title, sanitized to a slug, whenever the diagram has a saved title; only
\* without a title is it a generic name with a timestamp.
C15_ExportNamedAfterTitle ==
    (event = "export:svg" /\ download # NoDownload)
        => IF savedDiagram # Null
           THEN download.name = Slug(savedDiagram.title) \o <<".", "svg">>
           ELSE \E i \in 1..Len(download.name) : download.name[i] = "Date.now()"

-----------------------------------------------------------------------------
(* Saving again *)

\* C20: once a save has succeeded and the editor holds the saved diagram,
\* every later save of the session is a PUT to that diagram's id: it leaves
\* the number of stored diagrams as it is and the editor keeps the same id.
C20_LaterSavesUpdateSameDiagram ==
    /\ [](saveCall.pc = "saving" /\ saveCall.held # 0
            => saveCall.method = "PUT" /\ saveCall.id = saveCall.held)
    /\ [][(event' = "saveSettled" /\ saveCall.held # 0)
            => /\ Len(diagrams') = Len(diagrams)
               /\ savedDiagram' # Null /\ savedDiagram' # savedDiagram
                    => savedDiagram'.id = saveCall.held]_vars

\* A second save of the session has just succeeded, as an update
C20_Witness ==
    /\ event = "saveSettled"
    /\ toast = <<"Diagram updated!">>
    /\ savedDiagram # Null
    /\ Len(diagrams) = 1

-----------------------------------------------------------------------------
(* The router *)

\* A category no revision of the page knows
Unrecognized(category) == category \notin KnownCategories \cup KrokiNotations

-----------------------------------------------------------------------------
(* Branch labelling *)

\* The description has one of the spellings of a word
Mentions(d, spellings) == \E i \in 1..Len(d) : d[i] \in spellings

MentionsReview == Mentions(genDescription, {"Review", "review"})
MentionsComplete == Mentions(genDescription, {"Complete", "complete"})
MentionsBothOutcomes ==
    /\ Mentions(genDescription, {"Approve", "approve"})
    /\ Mentions(genDescription, {"Reject", "reject"})

\* C17: for a description with a decision that has approve and reject
\* outcomes, the generated code has an edge labeled "Approved" from the
\* decision toward completion (the completion node if there is one, else the
\* end) and an edge labeled "Rejected" from the decision back to the review
\* node when a review step is present, and to the start node otherwise.
C17_BranchesLabelled ==
    (event = "generated" /\ MentionsBothOutcomes)
        => /\ Edge("decision", IF MentionsComplete THEN "complete" ELSE "end",
                   "Approved") \in genSource.edges
           /\ Edge("decision", IF MentionsReview THEN "review" ELSE "start",
                   "Rejected") \in genSource.edges

\* Code has been generated for a review that is approved or rejected
C17_Witness ==
    /\ event = "generated"
    /\ MentionsBothOutcomes
    /\ MentionsReview
    /\ Edge("decision", "review", "Rejected") \in genSource.edges

-----------------------------------------------------------------------------
(* Logging out *)

\* C18: after logout has been called the session is unauthenticated and no
\* token remains in localStorage.
C18_LogoutClearsToken ==
    event = "logout"
        => /\ token = NullToken \/ user = NullUser
           /\ storedToken = NullToken

-----------------------------------------------------------------------------
(* Signing up *)

\* C19: submitting the signup form, filled in and with matching passwords,
\* with a password shorter than 6 characters is rejected with the error
\* 'Password must be at least 6 characters', and no signup request is sent.
C19_ShortPasswordRejected ==
    (/\ event = "handleSubmit"
     /\ email # ""
     /\ password = confirmPassword
     /\ Len(password) \in 1..(MinPasswordLength - 1))
        => /\ toast = <<"Password must be at least 6 characters">>
           /\ signupCall = NoSignup

-----------------------------------------------------------------------------
(* The busy flag of saving *)

\* C21: after a save request settles, whether it succeeded, the server
\* returned an error or the request threw, the saving busy flag is false
\* again, so that the save dialog accepts a submission again.
C21_SaveBusyCleared ==
    /\ [][event' = "saveSettled" => ~isSaving']_vars
    /\ [](isSaving <=> saveCall.pc = "saving")

\* a save request that threw has settled and the flag is down
C21_Witness ==
    /\ event = "saveSettled"
    /\ ~response.net
    /\ showSaveModal
    /\ ~isSaving

-----------------------------------------------------------------------------
(* DiagramsList: the list of saved diagrams, its folders and its search box *)

\* String.prototype.toLowerCase on a sequence of characters
LowerSeq(s) == [i \in 1..Len(s) |-> ToLowerCase(s[i])]

\* String.prototype.includes
StringIncludes(s, q) ==
    \E i \in 0..(Len(s) - Len(q)) : SubSeq(s, i + 1, i + Len(q)) = q

\* Array.prototype.filter with `d.folder_id === id`
InFolder(ds, id) == SelectSeq(ds, LAMBDA d : d.folder_id = id)

\* The search filter of filteredDiagrams
Searched(ds, q) ==
    IF Trim(q) = <<>> THEN ds
    ELSE LET query == Trim(LowerSeq(q))
         IN  SelectSeq(ds, LAMBDA d :
                 \/ StringIncludes(LowerSeq(d.title), query)
                 \/ /\ d.description # <<>>
                    /\ StringIncludes(LowerSeq(d.description), query))

\* filteredDiagrams of the revision without folders: the search alone
filteredDiagrams_SearchOnly == Searched(listDiagrams, debouncedSearchQuery)

\* useMemo: the diagrams of the selected folder that match the search
filteredDiagrams ==
    LET result == IF selectedFolderId = NoFolder
                  THEN InFolder(listDiagrams, NullFolder)
                  ELSE IF selectedFolderId # NullFolder
                  THEN InFolder(listDiagrams, selectedFolderId)
                  ELSE listDiagrams
    IN  Searched(result, debouncedSearchQuery)

\* The cards of the grid: none while loading or after a failed load
Cards == IF isLoading \/ listError # NoError THEN <<>> ELSE filteredDiagrams

\* Neither confirmation dialog covers the page
NoModal == deleteTarget = Null /\ deleteFolderTarget = Null

\* The answers of GET /api/diagrams and GET /api/folders
ListResponses == { [net |-> TRUE, ok |-> TRUE],
                   [net |-> TRUE, ok |-> FALSE],
                   [net |-> FALSE, ok |-> FALSE] }

\* The answers of a DELETE: done tells whether the server carried it out
DeleteResponses(present) ==
    { [net |-> TRUE, ok |-> FALSE, done |-> FALSE],
      [net |-> FALSE, ok |-> FALSE, done |-> FALSE] }
    \cup (IF present
          THEN { [net |-> TRUE, ok |-> TRUE, done |-> TRUE],
                 [net |-> FALSE, ok |-> FALSE, done |-> TRUE] }
          ELSE {})

Holds(q, id) == \E i \in 1..Len(q) : q[i].id = id

\* `prevDiagrams.filter(d => d.id !== deleteTarget.id)`
WithoutDiagram(prev, id) == SelectSeq(prev, LAMBDA d : d.id # id)

\* `folders.filter(f => f.id !== deleteFolderTarget.id)`
WithoutFolder(fs, id) == SelectSeq(fs, LAMBDA f : f.id # id)

\* `diagrams.map(d => d.folder_id === id ? { ...d, folder_id: null } : d)`
MovedOut(ds, id) ==
    [i \in 1..Len(ds) |->
        IF ds[i].folder_id = id THEN [ds[i] EXCEPT !.folder_id = NullFolder]
        ELSE ds[i]]

\* The Refresh button: fetchDiagrams up to its await, and fetchFolders
refresh ==
    /\ ~isLoading
    /\ NoModal
    /\ folderFetches < MaxCalls
    /\ event' = "refresh"
    /\ isLoading' = TRUE
    /\ listError' = NoError
    /\ folderFetches' = folderFetches + 1
    /\ Quiet
    /\ UNCHANGED <<listDiagrams, folders, selectedFolderId, deleteFolderTarget,
                   isDeletingFolder, deleteTarget, isDeleting, deleteCall,
                   deleteFolderCall, serverDiagrams, serverFolders>>
    /\ UNCHANGED <<searchVars, besideList>>

\* The continuation of fetchDiagrams after `await fetch(...)`
fetchDiagramsSettled(r) ==
    /\ isLoading
    /\ event' = "fetchDiagramsSettled"
    /\ IF r.net /\ r.ok
       THEN /\ listDiagrams' = serverDiagrams
            /\ toast' = NoToast
            /\ UNCHANGED listError
       ELSE /\ listError' = IF r.net THEN <<"Failed to fetch diagrams">>
                            ELSE FetchFailed
            /\ toast' = <<"Failed to load diagrams">>
            /\ UNCHANGED listDiagrams
    /\ isLoading' = FALSE
    /\ NoFile
    /\ NoAnswer
    /\ UNCHANGED <<folders, selectedFolderId, deleteFolderTarget,
                   isDeletingFolder, deleteTarget, isDeleting, folderFetches,
                   deleteCall, deleteFolderCall, serverDiagrams,
                   serverFolders>>
    /\ UNCHANGED <<searchVars, besideList>>

\* The continuation of fetchFolders after `await fetch(...)`
fetchFoldersSettled(r) ==
    /\ folderFetches > 0
    /\ event' = "fetchFoldersSettled"
    /\ folders' = IF r.net /\ r.ok THEN serverFolders ELSE folders
    /\ folderFetches' = folderFetches - 1
    /\ Quiet
    /\ UNCHANGED <<listDiagrams, isLoading, listError, selectedFolderId,
                   deleteFolderTarget, isDeletingFolder, deleteTarget,
                   isDeleting, deleteCall, deleteFolderCall, serverDiagrams,
                   serverFolders>>
    /\ UNCHANGED <<searchVars, besideList>>

\* The folder buttons of the sidebar: All Diagrams, No Folder, or a folder
setSelectedFolderId(id) ==
    /\ NoModal
    /\ id # selectedFolderId
    /\ id \in {NullFolder, NoFolder} \/ Holds(folders, id)
    /\ event' = "setSelectedFolderId"
    /\ selectedFolderId' = id
    /\ Quiet
    /\ UNCHANGED <<listDiagrams, isLoading, listError, folders,
                   deleteFolderTarget, isDeletingFolder, deleteTarget,
                   isDeleting, folderFetches, deleteCall, deleteFolderCall,
                   serverDiagrams, serverFolders>>
    /\ UNCHANGED <<searchVars, besideList>>

\* Typing into the search box: the effect of useDebounce clears the pending
\* timeout and sets a new one
setSearchQuery(q) ==
    /\ NoModal
    /\ Len(listDiagrams) > 0
    /\ q # searchQuery
    /\ event' = "setSearchQuery"
    /\ searchQuery' = q
    /\ handler' = Timeout(q)
    /\ idle' = 0
    /\ Quiet
    /\ UNCHANGED debouncedSearchQuery
    /\ UNCHANGED <<listVars, besideList>>

\* The X button of the search box
handleClearSearch ==
    /\ NoModal
    /\ Len(listDiagrams) > 0
    /\ searchQuery # <<>>
    /\ event' = "handleClearSearch"
    /\ searchQuery' = <<>>
    /\ handler' = Timeout(<<>>)
    /\ idle' = 0
    /\ Quiet
    /\ UNCHANGED debouncedSearchQuery
    /\ UNCHANGED <<listVars, besideList>>

\* Time passes
tick ==
    /\ idle < DebounceDelay
    /\ event' = "tick"
    /\ idle' = idle + Tick
    /\ handler' = IF handler.armed
                  THEN [handler EXCEPT !.elapsed = handler.elapsed + Tick]
                  ELSE handler
    /\ Quiet
    /\ UNCHANGED <<searchQuery, debouncedSearchQuery>>
    /\ UNCHANGED <<listVars, besideList>>

\* A timeout set without a delay is due at once
Due_AtOnce(h) == TRUE

\* The delay of the timeout has passed
Due(h) == h.elapsed >= DebounceDelay

\* The callback of setTimeout runs once its delay has passed
timeout ==
    /\ handler.armed
    /\ Due(handler)
    /\ event' = "timeout"
    /\ debouncedSearchQuery' = handler.value
    /\ handler' = [handler EXCEPT !.armed = FALSE]
    /\ Quiet
    /\ UNCHANGED <<searchQuery, idle>>
    /\ UNCHANGED <<listVars, besideList>>

\* The delete button of the i-th card: DiagramCard's onDelete(diagram)
handleDeleteClick(i) ==
    /\ NoModal
    /\ i \in 1..Len(Cards)
    /\ event' = "handleDeleteClick"
    /\ deleteTarget' = Cards[i]
    /\ Quiet
    /\ UNCHANGED <<listDiagrams, isLoading, listError, folders,
                   selectedFolderId, deleteFolderTarget, isDeletingFolder,
                   isDeleting, folderFetches, deleteCall, deleteFolderCall,
                   serverDiagrams, serverFolders>>
    /\ UNCHANGED <<searchVars, besideList>>

\* onClose of the delete dialog: its backdrop and its X are never disabled
closeDeleteModal ==
    /\ deleteTarget # Null
    /\ event' = "closeDeleteModal"
    /\ deleteTarget' = Null
    /\ Quiet
    /\ UNCHANGED <<listDiagrams, isLoading, listError, folders,
                   selectedFolderId, deleteFolderTarget, isDeletingFolder,
                   isDeleting, folderFetches, deleteCall, deleteFolderCall,
                   serverDiagrams, serverFolders>>
    /\ UNCHANGED <<searchVars, besideList>>

\* handleDeleteConfirm up to its await
handleDeleteConfirm ==
    /\ deleteTarget # Null
    /\ ~isDeleting
    /\ event' = "handleDeleteConfirm"
    /\ isDeleting' = TRUE
    /\ deleteCall' = [pc |-> "deleting", target |-> deleteTarget]
    /\ Quiet
    /\ UNCHANGED <<listDiagrams, isLoading, listError, folders,
                   selectedFolderId, deleteFolderTarget, isDeletingFolder,
                   deleteTarget, folderFetches, deleteFolderCall,
                   serverDiagrams, serverFolders>>
    /\ UNCHANGED <<searchVars, besideList>>

\* The continuation of handleDeleteConfirm after `await fetch(...)`
deleteSettled(r) ==
    /\ deleteCall.pc = "deleting"
    /\ event' = "deleteSettled"
    /\ response' = r
    /\ serverDiagrams' = IF r.done
                         THEN WithoutDiagram(serverDiagrams,
                                             deleteCall.target.id)
                         ELSE serverDiagrams
    /\ IF r.net /\ r.ok
       THEN /\ listDiagrams' = WithoutDiagram(listDiagrams,
                                              deleteCall.target.id)
            /\ toast' = <<"Diagram deleted successfully">>
            /\ deleteTarget' = Null
       ELSE /\ toast' = IF r.net THEN <<"Failed to delete diagram">>
                        ELSE FetchFailed
            /\ UNCHANGED <<listDiagrams, deleteTarget>>
    /\ isDeleting' = FALSE
    /\ deleteCall' = NoDelete
    /\ NoFile
    /\ UNCHANGED <<isLoading, listError, folders, selectedFolderId,
                   deleteFolderTarget, isDeletingFolder, folderFetches,
                   deleteFolderCall, serverFolders>>
    /\ UNCHANGED <<searchVars, besideList>>

\* The delete button of the i-th folder of the sidebar
setDeleteFolderTarget(i) ==
    /\ NoModal
    /\ i \in 1..Len(folders)
    /\ event' = "setDeleteFolderTarget"
    /\ deleteFolderTarget' = folders[i]
    /\ Quiet
    /\ UNCHANGED <<listDiagrams, isLoading, listError, folders,
                   selectedFolderId, isDeletingFolder, deleteTarget,
                   isDeleting, folderFetches, deleteCall, deleteFolderCall,
                   serverDiagrams, serverFolders>>
    /\ UNCHANGED <<searchVars, besideList>>

\* onClose of the folder dialog
closeFolderModal ==
    /\ deleteFolderTarget # Null
    /\ event' = "closeFolderModal"
    /\ deleteFolderTarget' = Null
    /\ Quiet
    /\ UNCHANGED <<listDiagrams, isLoading, listError, folders,
                   selectedFolderId, isDeletingFolder, deleteTarget,
                   isDeleting, folderFetches, deleteCall, deleteFolderCall,
                   serverDiagrams, serverFolders>>
    /\ UNCHANGED <<searchVars, besideList>>

\* handleDeleteFolder up to its await: the continuation keeps the folders,
\* diagrams and selectedFolderId of the render that created the handler
handleDeleteFolder ==
    /\ deleteFolderTarget # Null
    /\ ~isDeletingFolder
    /\ event' = "handleDeleteFolder"
    /\ isDeletingFolder' = TRUE
    /\ deleteFolderCall' = [pc |-> "deleting",
                            target |-> deleteFolderTarget,
                            folders |-> folders,
                            diagrams |-> listDiagrams,
                            selectedFolderId |-> selectedFolderId]
    /\ Quiet
    /\ UNCHANGED <<listDiagrams, isLoading, listError, folders,
                   selectedFolderId, deleteFolderTarget, deleteTarget,
                   isDeleting, folderFetches, deleteCall, serverDiagrams,
                   serverFolders>>
    /\ UNCHANGED <<searchVars, besideList>>

\* The continuation of handleDeleteFolder after `await fetch(...)`
deleteFolderSettled(r) ==
    /\ deleteFolderCall.pc = "deleting"
    /\ event' = "deleteFolderSettled"
    /\ response' = r
    /\ IF r.done
       THEN /\ serverFolders' = WithoutFolder(serverFolders,
                                              deleteFolderCall.target.id)
            /\ serverDiagrams' = MovedOut(serverDiagrams,
                                          deleteFolderCall.target.id)
       ELSE UNCHANGED <<serverFolders, serverDiagrams>>
    /\ IF r.net /\ r.ok
       THEN /\ folders' = WithoutFolder(deleteFolderCall.folders,
                                        deleteFolderCall.target.id)
            /\ listDiagrams' = MovedOut(deleteFolderCall.diagrams,
                                        deleteFolderCall.target.id)
            /\ selectedFolderId' =
                   IF deleteFolderCall.selectedFolderId
                          = deleteFolderCall.target.id
                   THEN NullFolder ELSE selectedFolderId
            /\ toast' = <<"Folder \"", deleteFolderCall.target.name,
                          "\" deleted">>
            /\ deleteFolderTarget' = Null
       ELSE /\ toast' = IF r.net THEN <<"Failed to delete folder">>
                        ELSE FetchFailed
            /\ UNCHANGED <<folders, listDiagrams, selectedFolderId,
                           deleteFolderTarget>>
    /\ isDeletingFolder' = FALSE
    /\ deleteFolderCall' = NoFolderDelete
    /\ NoFile
    /\ UNCHANGED <<isLoading, listError, deleteTarget, isDeleting,
                   folderFetches, deleteCall>>
    /\ UNCHANGED <<searchVars, besideList>>

\* The list page with its search box
SearchNext ==
    \/ \E r \in ListResponses : fetchDiagramsSettled(r)
    \/ \E r \in ListResponses : fetchFoldersSettled(r)
    \/ refresh
    \/ \E id \in {NullFolder, NoFolder, "f1"} : setSelectedFolderId(id)
    \/ \E q \in Queries : setSearchQuery(q)
    \/ handleClearSearch
    \/ tick
    \/ timeout

SearchSpec == Init /\ [][SearchNext]_vars

\* The timer of useDebounce runs: time passes and a due callback is called
FairSearchSpec == SearchSpec /\ WF_vars(tick) /\ WF_vars(timeout)

\* The list page with its deletions
ListNext ==
    \/ \E r \in ListResponses : fetchDiagramsSettled(r)
    \/ \E r \in ListResponses : fetchFoldersSettled(r)
    \/ refresh
    \/ \E id \in {NullFolder, NoFolder, "f1"} : setSelectedFolderId(id)
    \/ \E i \in 1..Len(Library) : handleDeleteClick(i)
    \/ closeDeleteModal
    \/ handleDeleteConfirm
    \/ \E r \in DeleteResponses(/\ deleteCall.pc = "deleting"
                                 /\ Holds(serverDiagrams,
                                          deleteCall.target.id)) :
           deleteSettled(r)
    \/ \E i \in 1..Len(LibraryFolders) : setDeleteFolderTarget(i)
    \/ closeFolderModal
    \/ handleDeleteFolder
    \/ \E r \in DeleteResponses(/\ deleteFolderCall.pc = "deleting"
                                 /\ Holds(serverFolders,
                                          deleteFolderCall.target.id)) :
           deleteFolderSettled(r)

ListSpec == Init /\ [][ListNext]_vars

-----------------------------------------------------------------------------
(* Searching within a folder *)

Range(q) == {q[i] : i \in 1..Len(q)}

\* The text occurs in the string at some position, letter case disregarded
OccursIn(text, string) ==
    \E at \in 0..(Len(string) - Len(text)) :
        \A k \in 1..Len(text) :
            ToLowerCase(string[at + k]) = ToLowerCase(text[k])

\* The diagram matches the query in its title or in its description
Matches(d, q) == OccursIn(Trim(q), d.title) \/ OccursIn(Trim(q), d.description)

\* A folder of the sidebar is selected, a query is in effect and the grid shows
SearchingInFolder ==
    /\ selectedFolderId \notin {NullFolder, NoFolder}
    /\ Trim(debouncedSearchQuery) # <<>>
    /\ ~isLoading
    /\ listError = NoError

\* C22: with a folder selected and a search query in effect, the displayed
\* list is exactly the set of diagrams that are in the selected folder and
\* match the query, case-insensitively, in title or description; no diagram
\* outside the selected folder is ever shown.
C22_SearchWithinFolder ==
    /\ SearchingInFolder
           => Range(Cards) = {d \in Range(listDiagrams) :
                                 /\ d.folder_id = selectedFolderId
                                 /\ Matches(d, debouncedSearchQuery)}
    /\ selectedFolderId \notin {NullFolder, NoFolder}
           => \A d \in Range(Cards) : d.folder_id = selectedFolderId

\* the folder's matching diagram is shown, and another folder's matching
\* diagram is not
C22_Witness ==
    /\ SearchingInFolder
    /\ Len(Cards) = 1
    /\ \E d \in Range(listDiagrams) :
           /\ d.folder_id # selectedFolderId
           /\ Matches(d, debouncedSearchQuery)

-----------------------------------------------------------------------------
(* Deleting a diagram *)

\* The diagram deletion that has just settled succeeded
DeleteSucceeded == event' = "deleteSettled" /\ response'.net /\ response'.ok

\* C23: after a confirmed delete succeeds, the local diagram list is the
\* previous list minus exactly the diagram whose delete button was clicked,
\* and the count drops by one; if the delete request fails, the list is
\* unchanged.
C23_DeleteRemovesClicked ==
    [][event' = "deleteSettled"
           => IF DeleteSucceeded
              THEN /\ Range(listDiagrams')
                          = Range(listDiagrams) \ {deleteCall.target}
                   /\ Len(listDiagrams') = Len(listDiagrams) - 1
              ELSE listDiagrams' = listDiagrams]_vars

-----------------------------------------------------------------------------
(* The debounce of the search box *)

Typing == {"setSearchQuery", "handleClearSearch"}

\* C24: the search query used for filtering changes only after the search
\* input has stayed unchanged for the 300 ms debounce delay, and it then
\* takes the value of the input; once typing stops, also after the clear
\* button has emptied the input, it eventually equals the latest input.
C24_DebouncedFollowsInput ==
    /\ [][debouncedSearchQuery' # debouncedSearchQuery
              => /\ idle >= DebounceDelay
                 /\ searchQuery' = searchQuery
                 /\ debouncedSearchQuery' = searchQuery]_vars
    /\ <>[](event \notin Typing) => <>[](debouncedSearchQuery = searchQuery)

\* the query in effect has just followed the input, 300 ms after the last key
C24_Witness ==
    /\ event = "timeout"
    /\ idle >= DebounceDelay
    /\ searchQuery # <<>>
    /\ debouncedSearchQuery = searchQuery

-----------------------------------------------------------------------------
(* Deleting a folder *)

\* The folder deletion that has just settled succeeded
FolderDeleteSucceeded ==
    event' = "deleteFolderSettled" /\ response'.net /\ response'.ok

\* C25: after a folder is deleted successfully, nothing in local state
\* refers to it: it is absent from the folder list, no diagram of the list
\* is in it any more, and it is not the selected filter.
C25_NothingRefersToDeletedFolder ==
    [][FolderDeleteSucceeded
           => /\ ~Holds(folders', deleteFolderCall.target.id)
              /\ \A d \in Range(listDiagrams') :
                     d.folder_id # deleteFolderCall.target.id
              /\ selectedFolderId' # deleteFolderCall.target.id
              /\ deleteFolderTarget' = Null]_vars

-----------------------------------------------------------------------------
(* Validating the stored token *)

\* The validation that has just settled was answered non-OK or threw
ValidationFailed ==
    event' = "validateSettled" /\ ~(response'.net /\ response'.ok)

\* C26: if a token is present when the auth provider mounts and its
\* validation request is answered non-OK or throws, the token is removed
\* from localStorage and from state, user is null, and the provider is
\* unauthenticated with loading false; the effect that runs again for the
\* cleared token leaves it so.
C26_InvalidTokenCleared ==
    /\ [][ValidationFailed
              => /\ storedToken' = NullToken
                 /\ token' = NullToken
                 /\ user' = NullUser
                 /\ ~isAuthenticated'
                 /\ ~loading']_vars
    /\ [][(event' = "validateToken" /\ token = NullToken)
              => /\ ~loading'
                 /\ UNCHANGED <<user, token, storedToken>>]_vars

\* a provider mounted with a stored token has had it rejected with 401
C26_Witness ==
    /\ event = "validateSettled"
    /\ response.status = "401"
    /\ loginCall = NoLogin
    /\ validations = <<>>
    /\ storedToken = NullToken
    /\ token = NullToken
    /\ ~loading

-----------------------------------------------------------------------------
(* The held code and the held artifact *)

\* C27: whenever no flow is in flight and both generated code and a rendered
\* artifact are held, the artifact is the renderer's output for exactly that
\* held code, in the notation it was generated for; a generation whose render
\* step fails never leaves the new code paired with the artifact of an
\* earlier generation.
C27_ArtifactOfHeldCode ==
    (/\ flow.pc = "idle"
     /\ Truthy(generatedCode)
     /\ renderedDiagram # Null)
        => renderedDiagram = [type |-> "svg",
                              content |-> Svg(generatedCode, codeType)]

-----------------------------------------------------------------------------
(* The user and the token of the session *)

\* C28: in every reachable state of the auth provider, user is non-null only
\* if token is non-null, also when a token-validation or login response
\* arrives after logout or after the token has been cleared.
C28_UserOnlyWithToken == user # NullUser => token # NullToken

-----------------------------------------------------------------------------
(* A folder deletion that overlaps other changes of the list *)

\* C29: a change to the local diagram list that completed while a folder
\* deletion was in flight (a diagram delete or a list refresh) is not undone
\* when the folder deletion completes: the folder deletion applies its
\* folder_id reset to the list as it is at completion, not to the list as it
\* was when the deletion started.
C29_FolderDeleteKeepsList ==
    [][FolderDeleteSucceeded
           => /\ Len(listDiagrams') = Len(listDiagrams)
              /\ \A i \in 1..Len(listDiagrams) :
                     listDiagrams'[i] =
                         IF listDiagrams[i].folder_id
                                = deleteFolderCall.target.id
                         THEN [listDiagrams[i] EXCEPT !.folder_id = NullFolder]
                         ELSE listDiagrams[i]]_vars

-----------------------------------------------------------------------------
(* PreviewPanel: the zoom of the preview *)

\* `prev + 10` without Math.min
ZoomedIn_Unbounded(prev) == prev + ZoomStep

\* Math.min(prev + 10, 200)
ZoomedIn(prev) == IF prev + ZoomStep < MaxZoom THEN prev + ZoomStep ELSE MaxZoom

\* Math.max(prev - 10, 30)
ZoomedOut(prev) == IF prev - ZoomStep > MinZoom THEN prev - ZoomStep ELSE MinZoom

\* The zoom controls are rendered while a diagram is
ZoomControls == renderedDiagram # Null

handleZoomIn ==
    /\ ZoomControls
    /\ event' = "handleZoomIn"
    /\ zoom' = ZoomedIn(zoom)
    /\ Quiet
    /\ UNCHANGED <<editorVars, besideZoom>>

handleZoomOut ==
    /\ ZoomControls
    /\ event' = "handleZoomOut"
    /\ zoom' = ZoomedOut(zoom)
    /\ Quiet
    /\ UNCHANGED <<editorVars, besideZoom>>

handleResetZoom ==
    /\ ZoomControls
    /\ event' = "handleResetZoom"
    /\ zoom' = DefaultZoom
    /\ Quiet
    /\ UNCHANGED <<editorVars, besideZoom>>

\* The editing session with the zoom controls of its preview
ZoomNext ==
    \/ handleGenerateDiagram
    \/ \E r \in GenResponses : generateSettled(r)
    \/ \E r \in RenderResponses(flow.code, flow.krokiType) : renderSettled(r)
    \/ clearAll
    \/ handleZoomIn
    \/ handleZoomOut
    \/ handleResetZoom

ZoomSpec == Init /\ [][ZoomNext]_vars

\* C30: under any sequence of zoom-in, zoom-out and reset actions the preview
\* zoom stays within [30, 200] and is a multiple of 10: zoom-in adds 10 and
\* zoom-out subtracts 10 unless the bound would be crossed, and reset
\* returns it to 100.
C30_ZoomWithinBounds ==
    /\ [](zoom \in 30..200 /\ zoom % 10 = 0)
    /\ [][event' = "handleZoomIn"
              => zoom' = IF zoom + 10 > 200 THEN zoom ELSE zoom + 10]_vars
    /\ [][event' = "handleZoomOut"
              => zoom' = IF zoom - 10 < 30 THEN zoom ELSE zoom - 10]_vars
    /\ [][event' = "handleResetZoom" => zoom' = 100]_vars

\* zooming in at the upper bound has left the zoom there
C30_Witness ==
    /\ event = "handleZoomIn"
    /\ zoom = MaxZoom

====
